---- MODULE Spec2Model ----
(***************************************************************************)
(* State-machine model of the useSpeechRecognition hook (src/src/index.ts):*)
(* the controller's refs and React state, the zero-delay timer queue, and  *)
(* the Web Speech engine it drives (start/stop/abort primitives and the    *)
(* start/result/error/end notifications).                                  *)
(***************************************************************************)
EXTENDS Naturals, Sequences, FiniteSets

VARIABLES
  options,        \* React state _options (line 56): the merged configuration
  wired,          \* the _options closed over by the handlers wired at lines 175-186
  isInitialized,  \* isInitialized.current (line 87)
  isListening,    \* isListening.current (line 88)
  transcripts,    \* React state transcripts (line 80): the ledger
  liveTranscript, \* React state liveTranscript (line 83)
  match,          \* React state match (line 84)
  lastIndex,      \* lastIndex of each RegExp object (stateful under the g flag)
  engine,         \* recognition.current (line 86): the engine's session state and config
  timers,         \* pending setTimeout(..., 0) callbacks, in FIFO order
  ops,            \* number of caller operations issued so far
  optsAtStart,    \* _options as they were when the engine's start primitive last took effect
  step            \* what the last handler did: operation, inputs, primitives invoked

vars == <<options, wired, isInitialized, isListening, transcripts, liveTranscript,
          match, lastIndex, engine, timers, ops, optsAtStart, step>>

----------------------------------------------------------------------------
(* Bounds *)

\* caller operations (start, stop, abort, restart) per behaviour
MaxOps == 2
\* finalized entries the ledger may hold
MaxLedger == 2

----------------------------------------------------------------------------
(* Texts and patterns *)

\* null as the value of match: kept apart from every string (strings are
\* sequences of one-character strings, and "null" is no character)
Null == <<"null">>

\* "h w" stands for "hello world"; texts are sequences of characters
Lower(c) == CASE c = "H" -> "h" [] c = "W" -> "w" [] OTHER -> c

toLowerCase(s) == [k \in 1..Len(s) |-> Lower(s[k])]

\* texts the engine may report as the top alternative
Texts == { <<"x">>, <<"h","w">>, <<"h","w","x","H","W">> }

Confidences == {0, 1}

\* the single utterance of the lifecycle specification
Utterance == <<"h","w">>

\* ids Math.random may produce (line 99); nothing keeps two draws apart
Ids == {"1f3a", "9c0e"}

\* an id is drawn for a final result only (line 99 is in the isFinal branch)
NoId == "none"

DrawnIds(isFinal) == IF isFinal THEN Ids ELSE {NoId}

\* RegExp objects: 1 is the default of line 62 (flags gi); 2 is a caller's
\* case-sensitive global pattern written in upper case; 3 a caller's override
RegexIds == {1, 2, 3}

RegexOf(r) ==
  CASE r = 1 -> [source |-> <<"h","w">>, ignoreCase |-> TRUE,  global |-> TRUE]
    [] r = 2 -> [source |-> <<"H","W">>, ignoreCase |-> FALSE, global |-> TRUE]
    [] OTHER -> [source |-> <<"x">>,     ignoreCase |-> FALSE, global |-> TRUE]

\* does regex re match text s at position k (1-based)?
MatchesAt(re, s, k) ==
  /\ k >= 1
  /\ k + Len(re.source) - 1 <= Len(s)
  /\ \A j \in 1..Len(re.source) :
       IF re.ignoreCase THEN Lower(s[k + j - 1]) = Lower(re.source[j])
                        ELSE s[k + j - 1] = re.source[j]

\* positions (1-based) at or after k where re matches s
MatchPositions(re, s, k) == { p \in k..Len(s) : MatchesAt(re, s, p) }

Min(S) == CHOOSE m \in S : \A n \in S : m <= n

\* String.prototype.matchAll: the non-overlapping matches left to right, from k
RECURSIVE matchAll(_, _, _)
matchAll(re, s, k) ==
  IF MatchPositions(re, s, k) = {} THEN <<>>
  ELSE LET p == Min(MatchPositions(re, s, k))
       IN  <<SubSeq(s, p, p + Len(re.source) - 1)>> \o matchAll(re, s, p + Len(re.source))

\* [...matchAll].pop()?.[0] || ''   (line 109); the iterator runs on a clone
\* of the regex that starts at the regex's lastIndex (0-based) and leaves the
\* regex itself untouched
lastMatch(re, s, li) ==
  LET all == matchAll(re, s, li + 1)
  IN  IF all = <<>> THEN <<>> ELSE all[Len(all)]

\* RegExp.prototype.test on a global regex: searches from lastIndex (0-based),
\* stores the end of the match on success and 0 on failure
test(re, s, li) ==
  LET from == IF re.global THEN li + 1 ELSE 1
      ps   == IF from > Len(s) + 1 THEN {} ELSE MatchPositions(re, s, from)
  IN  IF ps = {} THEN [ok |-> FALSE, lastIndex |-> 0]
      ELSE [ok |-> TRUE,
            lastIndex |-> IF re.global THEN Min(ps) + Len(re.source) - 1 ELSE li]

\* lines 108-115 publishing the lower-cased rightmost match without testing it
scan_Untested(r, s, li) ==
  [match |-> toLowerCase(lastMatch(RegexOf(r), s, li)), lastIndex |-> li]

\* lines 108-115: lower-cased rightmost match, re-tested against the pattern
scan(r, s, li) ==
  LET matchedColor == toLowerCase(lastMatch(RegexOf(r), s, li))
      t            == test(RegexOf(r), matchedColor, li)
  IN  [match |-> IF t.ok THEN matchedColor ELSE Null, lastIndex |-> t.lastIndex]

----------------------------------------------------------------------------
(* Configuration *)

Undefined == [undefined |-> TRUE]

\* a handler that takes no argument
NoArg == [none |-> TRUE]

\* StartOptions a caller passes to start / restart (lines 12-19)
Overrides == { [continuous |-> FALSE], [continuous |-> TRUE],
               [regex |-> 3, lang |-> "fr-FR"] }

StartArgs == Overrides \cup {Undefined}

\* { ...prev, ...startOptions }   (lines 142-145)
Merge(prev, o) == [f \in DOMAIN prev |-> IF f \in DOMAIN o THEN o[f] ELSE prev[f]]

\* the defaults of lines 57-76
Defaults ==
  [continuous |-> TRUE, grammar |-> "hello world", interimResults |-> TRUE,
   lang |-> "en-US", maxAlternatives |-> 1, regex |-> 1, startOnLoad |-> TRUE,
   onend |-> FALSE, onerror |-> FALSE, onresult |-> FALSE, onstart |-> FALSE]

\* options a caller passes to the hook (line 54); observers are TRUE when non-null
UserOptions ==
  { [continuous |-> c, startOnLoad |-> s,
     onend |-> o, onerror |-> o, onresult |-> o, onstart |-> o] :
       c \in BOOLEAN, s \in BOOLEAN, o \in BOOLEAN }

\* the callers of the result specification: they start on load, listen
\* continuously and pass the default or their own pattern
ResultUserOptions ==
  { [regex |-> r, onend |-> TRUE, onerror |-> TRUE, onresult |-> TRUE, onstart |-> TRUE] :
       r \in {1, 2} }

\* line 56-78: useState({ defaults, ...options })
InitialOptions(users) == { Merge(Defaults, u) : u \in users }

----------------------------------------------------------------------------
(* The engine (SpeechRecognition, line 86) *)

NoConfig == [set |-> FALSE]

IdleEngine(cfg) == [started |-> FALSE, notified |-> FALSE, ending |-> "none", config |-> cfg]

\* start(): takes effect unless a start is already in effect (then it throws)
EngStart(e) ==
  IF e.started THEN e
  ELSE [e EXCEPT !.started = TRUE, !.notified = FALSE, !.ending = "none"]

\* stop(): asks a started session to finish; otherwise nothing
EngStop(e) ==
  IF e.started /\ e.ending = "none" THEN [e EXCEPT !.ending = "stop"] ELSE e

\* abort(): asks a started session to end at once; otherwise nothing
EngAbort(e) ==
  IF e.started /\ e.ending \in {"none", "stop"} THEN [e EXCEPT !.ending = "abort"] ELSE e

EngCall(e, c) ==
  CASE c = "start" -> EngStart(e)
    [] c = "stop"  -> EngStop(e)
    [] OTHER       -> EngAbort(e)

\* the engine after the primitives of cs, invoked in order
RECURSIVE EngCalls(_, _)
EngCalls(e, cs) == IF cs = <<>> THEN e ELSE EngCalls(EngCall(e, Head(cs)), Tail(cs))

\* is some start of cs invoked while an earlier start is still in effect?
RECURSIVE Overlaps(_, _)
Overlaps(e, cs) ==
  IF cs = <<>> THEN FALSE
  ELSE (Head(cs) = "start" /\ e.started) \/ Overlaps(EngCall(e, Head(cs)), Tail(cs))

\* does some start of cs take effect (begin a new engine session)?
RECURSIVE TakesEffect(_, _)
TakesEffect(e, cs) ==
  IF cs = <<>> THEN FALSE
  ELSE (Head(cs) = "start" /\ ~e.started) \/ TakesEffect(EngCall(e, Head(cs)), Tail(cs))

----------------------------------------------------------------------------
(* The controller's handlers, piece by piece *)

\* start without its reentrancy guard
startCalls_NoGuard(listening) == <<"start">>

\* start, lines 146-147: the reentrancy guard, then the engine's start
startCalls(listening) == IF listening THEN <<>> ELSE <<"start">>

\* start, lines 141-145: setOptions merges the overrides when given
startOptions(prev, o) == IF o # Undefined THEN Merge(prev, o) ELSE prev

\* restart calling start inline instead of deferring it
restartCalls_Inline == <<"stop", "start">>

\* restart, line 152: the engine's stop, synchronously
restartCalls == <<"stop">>

\* restart, line 153: setTimeout(() => start(startOptions), 0).  listening and
\* awaitEnd remember the moment of the call: whether the session was Listening
\* and whether the engine still owes the end notification of the stopped session
restartTimers(o, listening, awaitEnd) ==
  <<[kind |-> "start", opts |-> o, listening |-> listening, awaitEnd |-> awaitEnd]>>

\* handleEnd, line 132
handleEndCalls == <<"stop">>

\* handleEnd with the test of the continuous flag inverted
handleEndTimers_Inverted(o) ==
  IF ~o.continuous
  THEN <<[kind |-> "auto", opts |-> Undefined, listening |-> FALSE, awaitEnd |-> FALSE]>>
  ELSE <<>>

\* handleEnd restarting whatever the continuous flag says
handleEndTimers_Always(o) ==
  <<[kind |-> "auto", opts |-> Undefined, listening |-> FALSE, awaitEnd |-> FALSE]>>

\* handleEnd, line 133: if (_options.continuous) setTimeout(() => recognition.current.start(), 0)
handleEndTimers(o) ==
  IF o.continuous
  THEN <<[kind |-> "auto", opts |-> Undefined, listening |-> FALSE, awaitEnd |-> FALSE]>>
  ELSE <<>>

\* handleEnd, line 134
handleEndObservers(o) == IF o.onend THEN <<"onend">> ELSE <<>>

\* handleStart, line 124
handleStartObservers(o) == IF o.onend THEN <<"onend">> ELSE <<>>

\* handleResult appending every result, interim ones too
recordTranscripts_Every(prev, isFinal, id, confidence, text) ==
  Append(prev, [id |-> id, confidence |-> confidence, isFinal |-> isFinal,
                transcript |-> text])

\* handleResult putting a final result at the head of the ledger
recordTranscripts_Prepend(prev, isFinal, id, confidence, text) ==
  IF isFinal
  THEN <<[id |-> id, confidence |-> confidence, isFinal |-> isFinal,
          transcript |-> text]>> \o prev
  ELSE prev

\* handleResult, lines 97-102: a final result is appended to the ledger
recordTranscripts(prev, isFinal, id, confidence, text) ==
  IF isFinal
  THEN Append(prev, [id |-> id, confidence |-> confidence, isFinal |-> isFinal,
                     transcript |-> text])
  ELSE prev

\* handleResult clearing the live transcript on every result
recordLive_Cleared(isFinal, text) == <<>>

\* handleResult, lines 103-105
recordLive(isFinal, text) == IF isFinal THEN <<>> ELSE text

\* the lifecycle flag an observer finds while it runs: handleStart calls the
\* observer (line 124) before it sets the flag (line 125), and handleEnd calls
\* it (line 134) before it clears the flag (line 135)
flagSeenByObserver(before, after) == before

\* the engine calls of an observer that calls start() back (lines 146-147)
observerCalls(observers, reenter, listening) ==
  IF reenter /\ observers # <<>> THEN startCalls(listening) ELSE <<>>

\* what the hook's rendered values show while the observer of line 116 runs.
\* The setters of lines 97-114 only request a render: React renders at each
\* request when it applies updates synchronously, and after handleResult has
\* returned when it batches them
seenByObserver(batched, before, after) == IF batched THEN before ELSE after

\* handleResult, line 116
handleResultObservers(o) == IF o.onresult THEN <<"onresult">> ELSE <<>>

\* the _options the wired handlers read (closures of the render that ran the
\* effect; the isInitialized guard of line 212 keeps later renders from rewiring)
handlerOptions(w, current) == w

\* initializeSpeechRecognition, lines 163-169: the config pushed to the engine
engineConfig(o) ==
  [set |-> TRUE, grammar |-> o.grammar, continuous |-> o.continuous,
   interimResults |-> o.interimResults, lang |-> o.lang,
   maxAlternatives |-> o.maxAlternatives]

\* initializeSpeechRecognition, line 190
initializeCalls(o) == IF o.startOnLoad THEN <<"start">> ELSE <<>>

\* what a handler did, as the next state's step
Did(op, arg, calls, observers, scheduled, handled) ==
  [op |-> op, arg |-> arg, calls |-> calls, threw |-> Overlaps(engine, calls),
   observers |-> observers, scheduled |-> scheduled, handled |-> handled,
   listening |-> isListening, live |-> liveTranscript, regex |-> 0,
   natural |-> FALSE, awaitEnd |-> FALSE, id |-> NoId, prior |-> match,
   stale |-> FALSE, reentered |-> FALSE]

\* the options in force at the engine's latest effective start
AtStart(e, calls, o) == IF TakesEffect(e, calls) THEN o ELSE optsAtStart

----------------------------------------------------------------------------
(* Initial state: after construction (lines 56-88), before the effect of line 211 *)

InitWith(users) ==
  /\ options \in InitialOptions(users)
  /\ wired = options
  /\ isInitialized = FALSE
  /\ isListening = FALSE
  /\ transcripts = <<>>
  /\ liveTranscript = <<>>
  /\ match = Null
  /\ lastIndex = [r \in RegexIds |-> 0]
  /\ engine = IdleEngine(NoConfig)
  /\ timers = <<>>
  /\ ops = 0
  /\ optsAtStart = options
  /\ step = [op |-> "construct", arg |-> NoArg, calls |-> <<>>, threw |-> FALSE,
             observers |-> <<>>, scheduled |-> 0, handled |-> FALSE,
             listening |-> FALSE, live |-> <<>>, regex |-> 0, natural |-> FALSE,
             awaitEnd |-> FALSE, id |-> NoId, prior |-> Null,
             stale |-> FALSE, reentered |-> FALSE]

Init == InitWith(UserOptions)

----------------------------------------------------------------------------
(* The effect of lines 211-213 and initializeSpeechRecognition (lines 161-190) *)

initializeSpeechRecognition ==
  /\ ~isInitialized
  /\ LET calls == initializeCalls(wired)
     IN  /\ engine' = EngCalls([engine EXCEPT !.config = engineConfig(wired)], calls)
         /\ optsAtStart' = AtStart(engine, calls, options)
         /\ step' = Did("initialize", NoArg, calls, <<>>, 0, TRUE)
  /\ isInitialized' = TRUE
  /\ UNCHANGED <<options, wired, isListening, transcripts, liveTranscript, match,
                 lastIndex, timers, ops>>

----------------------------------------------------------------------------
(* Caller operations (lines 140-159) *)

start(o) ==
  /\ ops < MaxOps
  /\ ops' = ops + 1
  /\ options' = startOptions(options, o)
  /\ LET calls == startCalls(isListening)
     IN  /\ engine' = EngCalls(engine, calls)
         /\ optsAtStart' = AtStart(engine, calls, options')
         /\ step' = Did("start", o, calls, <<>>, 0, TRUE)
  /\ UNCHANGED <<wired, isInitialized, isListening, transcripts, liveTranscript,
                 match, lastIndex, timers>>

restart(o) ==
  /\ ops < MaxOps
  /\ ops' = ops + 1
  /\ LET calls == restartCalls
         added == restartTimers(o, isListening, engine.started)
     IN  /\ engine' = EngCalls(engine, calls)
         /\ timers' = timers \o added
         /\ optsAtStart' = AtStart(engine, calls, options)
         /\ step' = Did("restart", o, calls, <<>>, Len(added), TRUE)
  /\ UNCHANGED <<options, wired, isInitialized, isListening, transcripts,
                 liveTranscript, match, lastIndex>>

stop ==
  /\ ops < MaxOps
  /\ ops' = ops + 1
  /\ engine' = EngCalls(engine, <<"stop">>)
  /\ step' = Did("stop", NoArg, <<"stop">>, <<>>, 0, TRUE)
  /\ UNCHANGED <<options, wired, isInitialized, isListening, transcripts,
                 liveTranscript, match, lastIndex, timers, optsAtStart>>

abort ==
  /\ ops < MaxOps
  /\ ops' = ops + 1
  /\ engine' = EngCalls(engine, <<"abort">>)
  /\ step' = Did("abort", NoArg, <<"abort">>, <<>>, 0, TRUE)
  /\ UNCHANGED <<options, wired, isInitialized, isListening, transcripts,
                 liveTranscript, match, lastIndex, timers, optsAtStart>>

----------------------------------------------------------------------------
(* Zero-delay continuations: the oldest pending setTimeout callback runs *)

\* line 153: () => start(startOptions)
deferredStart ==
  /\ timers # <<>>
  /\ Head(timers).kind = "start"
  /\ timers' = Tail(timers)
  /\ options' = startOptions(options, Head(timers).opts)
  /\ LET calls == startCalls(isListening)
     IN  /\ engine' = EngCalls(engine, calls)
         /\ optsAtStart' = AtStart(engine, calls, options')
         /\ step' = [Did("deferredStart", Head(timers).opts, calls, <<>>, 0, TRUE)
                       EXCEPT !.listening = Head(timers).listening,
                              !.awaitEnd = Head(timers).awaitEnd]
  /\ UNCHANGED <<wired, isInitialized, isListening, transcripts, liveTranscript,
                 match, lastIndex, ops>>

\* line 133: () => recognition.current.start()
autoStart ==
  /\ timers # <<>>
  /\ Head(timers).kind = "auto"
  /\ timers' = Tail(timers)
  /\ engine' = EngCalls(engine, <<"start">>)
  /\ optsAtStart' = AtStart(engine, <<"start">>, options)
  /\ step' = Did("autoStart", NoArg, <<"start">>, <<>>, 0, TRUE)
  /\ UNCHANGED <<options, wired, isInitialized, isListening, transcripts,
                 liveTranscript, match, lastIndex, ops>>

----------------------------------------------------------------------------
(* Engine notifications.  The engine answers every effective start with its  *)
(* start notification, and ends a session only after that notification.      *)
(* Before initializeSpeechRecognition has wired the handlers (lines 175-186) *)
(* a notification reaches no handler.                                        *)

\* once the end notification is delivered, no queued restart awaits it any more
EndDelivered(ts) == [k \in 1..Len(ts) |-> [ts[k] EXCEPT !.awaitEnd = FALSE]]

\* recognition.onstart = handleStart (lines 122-128, 186).  reenter: the
\* observer called at line 124 calls start() back (one more caller operation);
\* an exception of that call leaves handleStart before line 125
startNotification(reenter) ==
  /\ engine.started
  /\ ~engine.notified
  /\ IF isInitialized
     THEN LET observers == handleStartObservers(handlerOptions(wired, options))
              e         == [engine EXCEPT !.notified = TRUE]
              calls     == observerCalls(observers, reenter,
                                         flagSeenByObserver(isListening, TRUE))
          IN  /\ reenter => observers # <<>>
              /\ engine' = EngCalls(e, calls)
              /\ isListening' = IF Overlaps(e, calls) THEN isListening ELSE TRUE
              /\ step' = [Did("onstart", NoArg, calls, observers, 0, TRUE)
                            EXCEPT !.threw = Overlaps(e, calls),
                                   !.reentered = reenter]
     ELSE /\ ~reenter
          /\ engine' = [engine EXCEPT !.notified = TRUE]
          /\ isListening' = isListening
          /\ step' = Did("onstart", NoArg, <<>>, <<>>, 0, FALSE)
  /\ reenter => ops < MaxOps
  /\ ops' = IF reenter THEN ops + 1 ELSE ops
  /\ UNCHANGED <<options, wired, isInitialized, transcripts, liveTranscript, match,
                 lastIndex, timers, optsAtStart>>

\* the start notification with an observer that leaves the controller alone
onstart == startNotification(FALSE)

\* recognition.onresult = handleResult (lines 90-120, 180)
onresult(isFinal, confidence, text, id, batched) ==
  /\ engine.started
  /\ engine.notified
  /\ engine.ending \in {"none", "stop"}
  /\ isFinal \/ (engine.config.set /\ engine.config.interimResults)
  /\ IF isInitialized
     THEN LET o == handlerOptions(wired, options)
              m == scan(o.regex, text, lastIndex[o.regex])
          IN  /\ isFinal => Len(transcripts) < MaxLedger
              /\ transcripts' = recordTranscripts(transcripts, isFinal, id, confidence, text)
              /\ liveTranscript' = recordLive(isFinal, text)
              /\ match' = m.match
              /\ lastIndex' = [lastIndex EXCEPT ![o.regex] = m.lastIndex]
              /\ step' = [Did("onresult",
                              [isFinal |-> isFinal, confidence |-> confidence,
                               transcript |-> text],
                              <<>>, handleResultObservers(o), 0, TRUE)
                            EXCEPT !.regex = o.regex, !.id = id,
                                   !.stale =
                                     /\ handleResultObservers(o) # <<>>
                                     /\ seenByObserver(batched,
                                          <<transcripts, liveTranscript, match>>,
                                          <<transcripts', liveTranscript', match'>>)
                                        # <<transcripts', liveTranscript', match'>>]
     ELSE /\ id = NoId
          /\ ~batched
          /\ step' = Did("onresult",
                         [isFinal |-> isFinal, confidence |-> confidence,
                          transcript |-> text],
                         <<>>, <<>>, 0, FALSE)
          /\ UNCHANGED <<transcripts, liveTranscript, match, lastIndex>>
  /\ UNCHANGED <<options, wired, isInitialized, isListening, engine, timers, ops,
                 optsAtStart>>

\* recognition.onerror = _options.onerror (line 178): passed through untouched
onerror ==
  /\ engine.started
  /\ engine.notified
  /\ engine.ending = "none"
  /\ engine' = [engine EXCEPT !.ending = "error"]
  /\ step' = Did("onerror", NoArg, <<>>,
                 IF isInitialized /\ wired.onerror THEN <<"onerror">> ELSE <<>>,
                 0, isInitialized)
  /\ UNCHANGED <<options, wired, isInitialized, isListening, transcripts,
                 liveTranscript, match, lastIndex, timers, ops, optsAtStart>>

\* recognition.onend = handleEnd (lines 130-138, 177).  reenter: the observer
\* called at line 134 calls start() back
endNotification(reenter) ==
  /\ engine.started
  /\ engine.notified
  /\ IF isInitialized
     THEN LET o     == handlerOptions(wired, options)
              calls == handleEndCalls \o
                         observerCalls(handleEndObservers(o), reenter,
                                       flagSeenByObserver(isListening, FALSE))
              added == handleEndTimers(o)
              e     == IdleEngine(engine.config)
          IN  /\ reenter => handleEndObservers(o) # <<>>
              /\ engine' = EngCalls(e, calls)
              /\ timers' = EndDelivered(timers) \o added
              /\ isListening' = FALSE
              /\ optsAtStart' = IF TakesEffect(e, calls) THEN options ELSE optsAtStart
              /\ step' = [Did("onend", NoArg, calls, handleEndObservers(o), Len(added), TRUE)
                            EXCEPT !.threw = Overlaps(e, calls),
                                   !.natural = (engine.ending = "none"),
                                   !.reentered = reenter]
     ELSE /\ ~reenter
          /\ engine' = IdleEngine(engine.config)
          /\ timers' = EndDelivered(timers)
          /\ step' = [Did("onend", NoArg, <<>>, <<>>, 0, FALSE)
                        EXCEPT !.natural = (engine.ending = "none")]
          /\ UNCHANGED <<isListening, optsAtStart>>
  /\ reenter => ops < MaxOps
  /\ ops' = IF reenter THEN ops + 1 ELSE ops
  /\ UNCHANGED <<options, wired, isInitialized, transcripts, liveTranscript, match,
                 lastIndex>>

\* the end notification with an observer that leaves the controller alone
onend == endNotification(FALSE)

----------------------------------------------------------------------------
(* The specification *)

Next ==
  \/ initializeSpeechRecognition
  \/ \E o \in StartArgs : start(o)
  \/ \E o \in StartArgs : restart(o)
  \/ stop
  \/ abort
  \/ deferredStart
  \/ autoStart
  \/ onstart
  \/ \E batched \in BOOLEAN : onresult(FALSE, 1, Utterance, NoId, batched)
  \/ (~isInitialized /\ onresult(TRUE, 1, Utterance, NoId, FALSE))
  \/ onerror
  \/ onend

\* The lifecycle specification.  Its engine reports interim hypotheses of one
\* utterance once configured, and final results only while no handler is wired
\* (they are lost); final results that reach handleResult are ResultSpec's.
\* React may apply the updates of a result synchronously or batched
Spec == Init /\ [][Next]_vars

\* The same, with the scheduling the platform gives: a zero-delay continuation
\* runs, and the engine answers a start with its start notification
LiveSpec ==
  Spec /\ WF_vars(deferredStart) /\ WF_vars(autoStart) /\ WF_vars(onstart)

\* The result specification: a continuous session that is left to the engine,
\* which reports interim and final results with any text, confidence and id;
\* what an observer sees while it runs is left to Spec (updates are applied
\* synchronously here)
ResultInit == InitWith(ResultUserOptions)

ResultNext ==
  \/ initializeSpeechRecognition
  \/ autoStart
  \/ onstart
  \/ \E isFinal \in BOOLEAN, confidence \in Confidences, text \in Texts :
       \E id \in DrawnIds(isFinal) : onresult(isFinal, confidence, text, id, FALSE)
  \/ onend

ResultSpec == ResultInit /\ [][ResultNext]_vars

\* The ledger specification: the caller operates (without overrides) on a
\* session whose engine reports interim and final results of one utterance
\* with any confidence and id
LedgerNext ==
  \/ initializeSpeechRecognition
  \/ start(Undefined)
  \/ restart(Undefined)
  \/ stop
  \/ abort
  \/ deferredStart
  \/ autoStart
  \/ onstart
  \/ \E isFinal \in BOOLEAN, confidence \in Confidences :
       \E id \in DrawnIds(isFinal) : onresult(isFinal, confidence, Utterance, id, FALSE)
  \/ onend

LedgerSpec == ResultInit /\ [][LedgerNext]_vars

\* The re-entrancy specification: the caller's observers may call start() back
\* from inside the start and end notifications
ReentryNext ==
  \/ initializeSpeechRecognition
  \/ start(Undefined)
  \/ stop
  \/ abort
  \/ autoStart
  \/ \E reenter \in BOOLEAN : startNotification(reenter)
  \/ \E batched \in BOOLEAN : onresult(FALSE, 1, Utterance, NoId, batched)
  \/ \E reenter \in BOOLEAN : endNotification(reenter)

ReentrySpec == Init /\ [][ReentryNext]_vars

----------------------------------------------------------------------------
(* Properties of the session lifecycle (of Spec and LiveSpec) *)

Range(q) == { q[k] : k \in 1..Len(q) }

\* an end notification that reached handleEnd
HandledEnd == step.op = "onend" /\ step.handled

\* the controller was initialized in continuous mode: what its handlers read
ContinuousMode == wired.continuous

\* C1: the engine's start primitive is never invoked while an earlier engine
\* start is still in effect (after a start invocation and before the next end
\* notification), whatever the interleaving of caller operations, deferred
\* continuations and engine notifications
C1_NoDoubleStart == ~step.threw

\* C2: in continuous mode a natural end notification (no stop, abort or error
\* before it) schedules exactly one deferred invocation of the engine's start
\* primitive and invokes none synchronously, and the lifecycle state then
\* returns to Listening
C2_NaturalEnd == HandledEnd /\ step.natural /\ ContinuousMode

C2_OneDeferredStart ==
  /\ step.scheduled = 1
  /\ timers # <<>>
  /\ timers[Len(timers)].kind = "auto"
  /\ "start" \notin Range(step.calls)

C2_NaturalEndRestarts ==
  /\ [](C2_NaturalEnd => C2_OneDeferredStart)
  /\ (C2_NaturalEnd ~> isListening)

\* C2 witness: a natural end in continuous mode, handled while Listening
C2_Witness == C2_NaturalEnd /\ step.listening /\ step.scheduled = 1

\* C3: a controller initialized with continuous=false is left Idle by an end
\* notification, which invokes no engine start and schedules none; no
\* auto-restart is ever pending, and the engine's start is invoked only by
\* initialization, by the caller's start or by the deferred start of restart
C3_NonContinuousStaysIdle ==
  ~wired.continuous =>
    /\ \A k \in 1..Len(timers) : timers[k].kind # "auto"
    /\ HandledEnd =>
         (~isListening /\ step.scheduled = 0 /\ "start" \notin Range(step.calls))
    /\ "start" \in Range(step.calls) =>
         step.op \in {"initialize", "start", "deferredStart"}

\* C3 witness: a natural end handled while Listening by a controller that was
\* initialized non-continuous and later given the override continuous=true
C3_Witness ==
  /\ ~wired.continuous
  /\ options.continuous
  /\ HandledEnd
  /\ step.natural
  /\ step.listening

\* C4: while the lifecycle state is Listening the engine's start notification
\* has been delivered and no end notification has followed, and a start() then
\* invokes no engine primitive; its only effect is the merge of the overrides,
\* when given, into the configuration (the same holds for the deferred start()
\* of restart)
C4_StartWhileListeningIsNoOp ==
  /\ [](isListening => (isInitialized /\ engine.started /\ engine.notified))
  /\ [][ (step'.op \in {"start", "deferredStart"} /\ isListening) =>
          /\ step'.calls = <<>>
          /\ engine' = engine
          /\ isListening' = isListening
          /\ timers' = IF step'.op = "start" THEN timers ELSE Tail(timers)
          /\ options' = IF step'.arg = Undefined THEN options
                        ELSE Merge(options, step'.arg)
          /\ UNCHANGED <<wired, isInitialized, transcripts, liveTranscript, match,
                         lastIndex>> ]_vars

\* C4 witness: start(overrides) was called while Listening, after the engine's
\* start notification and before its end notification
C4_Witness ==
  /\ step.op = "start"
  /\ step.listening
  /\ step.arg \in Overrides
  /\ engine.started
  /\ engine.notified
  /\ options # wired

\* C5: restart invokes the engine's stop primitive and nothing else in its own
\* turn; the start is left to a continuation queued for a later turn
C5_RestartDefersStart ==
  step.op = "restart" =>
    /\ step.calls = <<"stop">>
    /\ step.scheduled = 1
    /\ timers # <<>>
    /\ timers[Len(timers)].kind = "start"
    /\ timers[Len(timers)].opts = step.arg

\* C5 witness: restart(overrides) called while Listening: the engine is asked
\* to stop and has not been started again
C5_Witness ==
  /\ step.op = "restart"
  /\ step.listening
  /\ step.arg \in Overrides
  /\ engine.ending = "stop"

\* C6: the deferred start of a restart() issued while Listening runs only after
\* the engine's end notification for the stopped session has been delivered,
\* and so invokes the engine's start primitive again
C6_DeferredStartAfterEnd ==
  (step.op = "deferredStart" /\ step.listening) =>
    (~step.awaitEnd /\ step.calls = <<"start">>)

\* C7: in continuous mode an end notification that follows stop(), abort() or
\* an engine error schedules no start and invokes none
C7_OnlyNaturalEndRestarts ==
  (HandledEnd /\ ~step.natural /\ ContinuousMode) =>
    (step.scheduled = 0 /\ "start" \notin Range(step.calls))

\* C8: the overrides given to start / restart govern the handlers from the next
\* engine start on: an end notification auto-restarts exactly when the
\* configuration in force at the latest engine start is continuous, and a
\* result is matched against the pattern of that configuration
C8_OverridesGovernNextStart ==
  /\ HandledEnd => (step.scheduled = 1 <=> optsAtStart.continuous)
  /\ (step.op = "onresult" /\ step.handled) => step.regex = optsAtStart.regex

----------------------------------------------------------------------------
(* Properties of the transcript ledger (of ResultSpec) *)

\* a result notification that reached handleResult, in the step just taken
HandledResult == step.op = "onresult" /\ step.handled

\* C9: over interim results followed by a final one, the ledger gains exactly
\* one entry, at the final result and not before (an interim result leaves it
\* as it was), and LiveTranscript is empty right after the final result
C9_FinalAddsOneEntry ==
  [][ (step'.op = "onresult" /\ step'.handled) =>
        IF step'.arg.isFinal
        THEN /\ Len(transcripts') = Len(transcripts) + 1
             /\ SubSeq(transcripts', 1, Len(transcripts)) = transcripts
             /\ liveTranscript' = <<>>
        ELSE Len(transcripts') = Len(transcripts) ]_vars

\* C9 witness: a final result arrived after an interim one (whose text was the
\* live transcript) and the ledger holds that one entry
C9_Witness ==
  /\ HandledResult
  /\ step.arg.isFinal
  /\ step.live # <<>>
  /\ Len(transcripts) = 1
  /\ liveTranscript = <<>>

\* C10: an interim result leaves the ledger unchanged, entry for entry, and
\* makes LiveTranscript the text of that interim result
C10_InterimOnlyTouchesLive ==
  [][ (step'.op = "onresult" /\ step'.handled /\ ~step'.arg.isFinal) =>
        /\ transcripts' = transcripts
        /\ liveTranscript' = step'.arg.transcript ]_vars

\* C10 witness: a second interim result in a row replaced the text of the
\* first, with an entry already in the ledger
C10_Witness ==
  /\ HandledResult
  /\ ~step.arg.isFinal
  /\ step.live # <<>>
  /\ step.live # liveTranscript
  /\ liveTranscript = step.arg.transcript
  /\ Len(transcripts) = 1

\* the ids of the ledger's entries are pairwise distinct
DistinctIds ==
  \A i, j \in 1..Len(transcripts) : i # j => transcripts[i].id # transcripts[j].id

\* the ledger changes only by a final result that reaches handleResult, which
\* appends one entry carrying the event's confidence and text and the id drawn
AppendOnly ==
  [][ IF step'.op = "onresult" /\ step'.handled /\ step'.arg.isFinal
      THEN transcripts' =
             Append(transcripts,
                    [id |-> step'.id, confidence |-> step'.arg.confidence,
                     isFinal |-> TRUE, transcript |-> step'.arg.transcript])
      ELSE transcripts' = transcripts ]_vars

\* C11 (as stated): the ledger is append-only and ordered by arrival, every
\* final result contributes one entry with the confidence and text supplied,
\* caller operations never change it, and any two entries have distinct ids
C11_AppendOnlyDistinctIds == AppendOnly /\ []DistinctIds

\* C11 (amended): the same, with each entry's id being the value drawn at
\* random for it, so that two entries have distinct ids when their draws differ
C11_AppendOnlyDrawnIds ==
  /\ AppendOnly
  /\ [](\A i \in 1..Len(transcripts) : transcripts[i].id \in Ids)

\* C11 witness: two final results in a row, with different confidences and
\* different ids, entered the ledger in arrival order after a caller operation
C11_Witness ==
  /\ HandledResult
  /\ step.arg.isFinal
  /\ Len(transcripts) = 2
  /\ transcripts[1].confidence # transcripts[2].confidence
  /\ transcripts[1].id # transcripts[2].id
  /\ transcripts[2].confidence = step.arg.confidence
  /\ ops > 0

\* C12: two consecutive result events with the same text, scanned with the
\* same pattern object, leave MatchState with the same value
C12_SameTextSameMatch ==
  [][ (/\ HandledResult
       /\ step'.op = "onresult" /\ step'.handled
       /\ step'.regex = step.regex
       /\ step'.arg.transcript = step.arg.transcript)
      => match' = match ]_vars

\* the occurrences of pattern r in text s, read off the text alone
Occurrences(r, s) == matchAll(RegexOf(r), s, 1)

\* C13: after a result event whose text contains an occurrence of the pattern,
\* MatchState is the lower-cased rightmost occurrence (when that lower-cased
\* occurrence still satisfies the pattern), whatever events came before
C13_RightmostOccurrence ==
  LET occ   == Occurrences(step.regex, step.arg.transcript)
      lower == toLowerCase(occ[Len(occ)])
  IN  (/\ HandledResult
       /\ occ # <<>>
       /\ Occurrences(step.regex, lower) # <<>>)
      => match = lower

\* C14: a result event whose text contains no occurrence of the pattern leaves
\* MatchState null, whatever it was before
C14_NoOccurrenceIsNull ==
  (HandledResult /\ Occurrences(step.regex, step.arg.transcript) = <<>>)
    => match = Null

\* C14 witness: a text without an occurrence overwrote a match with null
C14_Witness ==
  /\ HandledResult
  /\ Occurrences(step.regex, step.arg.transcript) = <<>>
  /\ step.prior # Null
  /\ match = Null

----------------------------------------------------------------------------
(* Properties of initialization, configuration and sessions (of Spec) *)

CallerOps == {"start", "restart", "stop", "abort"}

\* C15: a caller operation used before initialization fails fast: it ends in
\* an error, invokes none of the engine's start, stop and abort, and leaves
\* nothing scheduled
C15_FailFastBeforeInit ==
  (step.op \in CallerOps /\ ~isInitialized) =>
    (step.threw /\ step.calls = <<>> /\ step.scheduled = 0)

\* C16: when start, given overrides (directly or through restart), invokes the
\* engine's start, the engine's configuration fields are those of the
\* overrides merged onto the previous configuration
C16_EngineConfigFollowsOverrides ==
  (/\ isInitialized
   /\ step.op \in {"start", "deferredStart"}
   /\ step.arg # Undefined
   /\ step.calls = <<"start">>
   /\ ~step.threw)
  => engine.config = engineConfig(options)

\* C17: LiveTranscript is empty when a session begins (at the engine's start
\* notification), also when the previous session ended with an interim
\* result pending
C17_LiveEmptyAtSessionStart ==
  (step.op = "onstart" /\ step.handled) => liveTranscript = <<>>

----------------------------------------------------------------------------
(* Properties of the observers (of Spec) *)

\* C18: at every result notification the caller's result observer, when
\* non-null, is invoked exactly once, and the ledger, LiveTranscript and
\* MatchState it can read then already reflect the event
C18_ObserverSeesUpdatedState ==
  HandledResult =>
    /\ step.observers = IF wired.onresult THEN <<"onresult">> ELSE <<>>
    /\ ~step.stale

\* C19: the engine's start notification invokes the caller's onstart observer
\* (when non-null) and no other, and the onend observer is invoked once per end
\* notification and at no other time
C19_OneToOneDispatch ==
  /\ (step.op = "onstart" /\ step.handled) =>
       step.observers = IF wired.onstart THEN <<"onstart">> ELSE <<>>
  /\ HandledEnd => step.observers = IF wired.onend THEN <<"onend">> ELSE <<>>
  /\ "onend" \in Range(step.observers) => step.op = "onend"

\* C20 (of ReentrySpec): the lifecycle flag is updated before the observer
\* runs: start() called by the observer of an end notification, in
\* non-continuous mode, invokes the engine's start, and start() called by the
\* observer of a start notification is absorbed
C20_FlagUpdatedBeforeObserver ==
  /\ (HandledEnd /\ step.reentered /\ ~ContinuousMode) =>
       "start" \in Range(step.calls)
  /\ (step.op = "onstart" /\ step.handled /\ step.reentered) =>
       step.calls = <<>>

====
